---- MODULE Spec2Model ----
\* kafka-view, src/metadata.rs: the periodic per-cluster metadata fetcher.
\* MetadataFetcher::add_cluster registers one MetadataFetcherTask per cluster;
\* the scheduler calls the task's run, which fetches the cluster topology twice
\* and the consumer-group list once, and publishes into four replicated maps.
EXTENDS Integers, Sequences, FiniteSets, TLC

\* ------------------------------------------------------------------ bounds
MaxRuns == 2        \* runs the scheduler starts, over all clusters
MaxChanges == 1     \* changes of the upstream clusters' state
MaxClock == 1       \* largest reading of the wall clock

\* ------------------------------------------------------- program constants
Concurrency == 2    \* Scheduler::new(interval, 2)

\* ------------------------------------------------------------- value sets
Clusters == {"c1", "c2"}

None == <<>>
Some(x) == <<x>>

\* what the cluster (through rdkafka) reports: a partition
RawPartition(id, err) ==
    [id |-> id,
     leader |-> IF err = None THEN 1 ELSE -1,
     replicas |-> <<1>>,
     isr |-> IF err = None THEN <<1>> ELSE <<>>,
     error |-> err]

RawBroker(id) == [id |-> id, host |-> IF id = 1 THEN "h1" ELSE "h2", port |-> 9092]

RawGroup(name, state) ==
    [name |-> name, state |-> state,
     members |-> IF state = "Stable"
                 THEN <<[id |-> "m1", client_id |-> "cl1", client_host |-> "/10.0.0.1"]>>
                 ELSE <<>>]

\* the upstream states the environment can present for a cluster: a large
\* topology (partitions reported out of order, one without a leader) and a
\* small one, each with a long or a short group list
Topologies ==
    {[brokers |-> <<RawBroker(2), RawBroker(1)>>,
      topics |-> <<[name |-> "tb", partitions |->
                      <<RawPartition(2, None), RawPartition(0, None),
                        RawPartition(1, Some("LeaderNotAvailable"))>>],
                   [name |-> "ta", partitions |-> <<RawPartition(0, None)>>]>>],
     [brokers |-> <<RawBroker(1)>>,
      topics |-> <<[name |-> "tb", partitions |->
                      <<RawPartition(1, None), RawPartition(0, None)>>]>>]}

GroupListings ==
    {<<RawGroup("g2", "Empty"), RawGroup("g1", "Stable")>>, <<RawGroup("g1", "Empty")>>}

Upstreams ==
    {[brokers |-> t.brokers, topics |-> t.topics, groups |-> g] :
        t \in Topologies, g \in GroupListings}

\* --------------------------------------------------------------- the state
VARIABLES
    config,         \* the cluster ids the configuration lists: add_cluster's callers
    upstream,       \* configured cluster -> what the cluster reports now
    now,            \* the wall clock, as UTC::now() reads it
    consumer,       \* task field: cluster -> "absent" (no task), "none", "some"
    scheduled,      \* clusters whose task is registered with the scheduler
    panicked,       \* clusters whose add_cluster call panicked, unwinding its caller
    add_result,     \* cluster -> value its add_cluster call returned
    cache,          \* ReplicatedMap<ClusterId, Arc<Metadata>>
    broker_cache,   \* ReplicatedMap<ClusterId, Vec<Broker>>
    topic_cache,    \* ReplicatedMap<(ClusterId, TopicName), Vec<Partition>>
    group_cache,    \* ReplicatedMap<(ClusterId, String), Group>
    pc,             \* cluster -> position of its task's run
    metadata,       \* run's local `metadata` (first the snapshot, then the raw response)
    idx,            \* run's loop position in metadata.topics() / the group list
    groups,         \* run's local result of fetch_groups
    result,         \* cluster -> what the last run returned
    log,            \* history: cluster -> the fetches and inserts of the current/last run
    pre,            \* history: cluster -> its cache entries when the current/last run began
    changed,        \* history: cluster -> upstream changed since the run began
    prev_ok,        \* history: cluster -> the run before returned Ok with upstream unchanged
    nruns,          \* history: runs started
    nchanges        \* history: upstream changes made

vars == <<config, upstream, now, consumer, scheduled, panicked, add_result, cache, broker_cache,
          topic_cache, group_cache, pc, metadata, idx, groups, result, log, pre, changed,
          prev_ok, nruns, nchanges>>

env_vars == <<config, upstream, nchanges>>
facade_vars == <<consumer, scheduled, panicked, add_result>>
cache_vars == <<cache, broker_cache, topic_cache, group_cache>>
hist_vars == <<pre, prev_ok, nruns>>

\* ----------------------------------------------------------- domain model
\* Partition::new
Partition_new(id, leader, replicas, isr, error) ==
    [id |-> id, leader |-> leader, replicas |-> replicas, isr |-> isr, error |-> error]

\* Broker::new
Broker_new(id, hostname, port) == [id |-> id, hostname |-> hostname, port |-> port]

\* seeded fault: the snapshot is stamped with the epoch, not with the clock
Metadata_newUnstamped(brokers, topics, utc_now) ==
    [brokers |-> brokers, topics |-> topics, refresh_time |-> 0]

\* Metadata::new, with the clock reading UTC::now() returned
Metadata_new(brokers, topics, utc_now) ==
    [brokers |-> brokers, topics |-> topics, refresh_time |-> utc_now]

\* rderror::resp_err_description: the text of a response error code
resp_err_description(e) ==
    CASE e = "LeaderNotAvailable" -> "Broker: Leader not available"
      [] OTHER -> "Unknown error"

\* p.error().map(|e| rderror::resp_err_description(e))
ErrorDescription(error) ==
    IF error = None THEN None ELSE Some(resp_err_description(error[1]))

\* seeded fault: the brokers are pushed at the front
BrokersReversed(raw) ==
    [i \in 1..Len(raw) |->
        [id |-> raw[Len(raw) + 1 - i].id, hostname |-> raw[Len(raw) + 1 - i].host,
         port |-> raw[Len(raw) + 1 - i].port]]

\* the loop pushing one Broker per reported broker, in reported order
Brokers(raw) ==
    [i \in 1..Len(raw) |-> Broker_new(raw[i].id, raw[i].host, raw[i].port)]

\* the positions of the entries that a stable sort by id puts before entry i:
\* those of a smaller id, and those of an equal id that come earlier
SortsBefore(partitions, i) ==
    {j \in 1..Len(partitions) :
        \/ partitions[j].id < partitions[i].id
        \/ partitions[j].id = partitions[i].id /\ j < i}

\* partitions.sort_by(|a, b| a.id.cmp(&b.id)): a stable sort, ascending by id
SortById(partitions) ==
    [k \in 1..Len(partitions) |->
        partitions[CHOOSE i \in 1..Len(partitions) :
                      Cardinality(SortsBefore(partitions, i)) = k - 1]]

\* seeded fault: the sort is left out
PartitionsUnsorted(raw) ==
    [i \in 1..Len(raw) |->
        Partition_new(raw[i].id, raw[i].leader, raw[i].replicas, raw[i].isr,
                      ErrorDescription(raw[i].error))]

\* seeded fault: a partition that reports an error is left out
PartitionsSkippingErrors(raw) ==
    SortById(PartitionsUnsorted(SelectSeq(raw, LAMBDA p : p.error = None)))

\* the loop pushing one Partition per reported partition, then the sort
Partitions(raw) ==
    SortById([i \in 1..Len(raw) |->
                Partition_new(raw[i].id, raw[i].leader, raw[i].replicas, raw[i].isr,
                              ErrorDescription(raw[i].error))])

\* BTreeMap::insert of every reported topic, a later one replacing an earlier
\* one of the same name
RECURSIVE TopicMap(_)
TopicMap(raw) ==
    IF raw = <<>> THEN <<>>
    ELSE LET rest == TopicMap(SubSeq(raw, 1, Len(raw) - 1))
             t == raw[Len(raw)]
         IN [n \in DOMAIN rest \cup {t.name} |->
                IF n = t.name THEN Partitions(t.partitions) ELSE rest[n]]

\* fetch_metadata, on a response that arrived
fetch_metadata(response, utc_now) ==
    Metadata_new(Brokers(response.brokers), TopicMap(response.topics), utc_now)

\* seeded fault: the loop over the listed groups stops after its first turn
fetch_groupsFirstOnly(group_list) ==
    [i \in 1..(IF group_list = <<>> THEN 0 ELSE 1) |->
        [name |-> group_list[i].name,
         state |-> group_list[i].state,
         members |-> group_list[i].members]]

\* fetch_groups, on a response that arrived
fetch_groups(group_list) ==
    [i \in 1..Len(group_list) |->
        [name |-> group_list[i].name,
         state |-> group_list[i].state,
         members |-> [j \in 1..Len(group_list[i].members) |->
                        [id |-> group_list[i].members[j].id,
                         client_id |-> group_list[i].members[j].client_id,
                         client_host |-> group_list[i].members[j].client_host]]]]

\* ReplicatedMap::insert that succeeded: the whole value under the key is replaced
MapInsert(map, key, value) ==
    [k \in DOMAIN map \cup {key} |-> IF k = key THEN value ELSE map[k]]

\* ------------------------------------------------------------------ errors
\* one message of an error chain; cluster is the cluster id formatted into it
Msg(text, cluster) == [text |-> text, cluster |-> cluster]

\* the errors of the collaborators (rdkafka, the replicated map)
KafkaError == <<Msg("KafkaError", None)>>
CacheError == <<Msg("CacheError", None)>>

\* ResultExt::chain_err: a new head on the chain
chain_err(err, msg) == <<msg>> \o err

Ok == [status |-> "ok", chain |-> <<>>]
Err(chain) == [status |-> "err", chain |-> chain]
NotReturned == [status |-> "none", chain |-> <<>>]

\* ------------------------------------------------------ history bookkeeping
\* one fetch or insert of a run: op is "fetch" or "insert", target the request
\* or the cache, key and value what was to be written; for a fetch key is None
\* and value the response (None when the fetch failed)
Event(op, target, key, value, ok) ==
    [op |-> op, target |-> target, key |-> key, value |-> value, ok |-> ok]

\* the part of a two-component-key cache that is keyed by cluster c
Keyed(map, c) == [k \in {x \in DOMAIN map : x[1] = c} |-> map[k]]

\* a one-component-key cache's entry for c, as an Option
Lookup(map, c) == IF c \in DOMAIN map THEN Some(map[c]) ELSE None

\* everything the four caches hold under cluster c
Entries(c) ==
    [cache |-> Lookup(cache, c),
     broker_cache |-> Lookup(broker_cache, c),
     topic_cache |-> Keyed(topic_cache, c),
     group_cache |-> Keyed(group_cache, c)]

NoLocal == <<>>

\* the topology part of what a cluster reports: the response to a metadata request
Topology(u) == [brokers |-> u.brokers, topics |-> u.topics]

\* ------------------------------------------------------------------- Init
\* the state after MetadataFetcher::new, for the configured clusters; direct
\* are the clusters whose task was built with MetadataFetcherTask::new
\* (consumer: None) and handed to the scheduler as it is, not by add_cluster
Start(configured, direct) ==
    /\ config = configured
    /\ upstream \in [configured \cup direct -> Upstreams]
    /\ now = 0
    /\ consumer = [c \in Clusters |-> IF c \in direct THEN "none" ELSE "absent"]
    /\ scheduled = direct
    /\ panicked = {}
    /\ add_result = [c \in Clusters |-> NotReturned]
    /\ cache = <<>>
    /\ broker_cache = <<>>
    /\ topic_cache = <<>>
    /\ group_cache = <<>>
    /\ pc = [c \in Clusters |-> "idle"]
    /\ metadata = [c \in Clusters |-> NoLocal]
    /\ idx = [c \in Clusters |-> 0]
    /\ groups = [c \in Clusters |-> NoLocal]
    /\ result = [c \in Clusters |-> NotReturned]
    /\ log = [c \in Clusters |-> <<>>]
    /\ pre = [c \in Clusters |-> Entries(c)]
    /\ changed = [c \in Clusters |-> FALSE]
    /\ prev_ok = [c \in Clusters |-> FALSE]
    /\ nruns = 0
    /\ nchanges = 0

\* one cluster is configured
Configured == {"c1"}

Init == Start(Configured, {})

\* every cluster is configured
InitClusters == Start(Clusters, {})

\* one cluster is configured, and the task of another is scheduled directly
InitDirect == Start({"c2"}, {"c1"})

\* ------------------------------------------------------------ environment
\* the cluster's brokers, topics, partitions or groups change
UpstreamChange(c) ==
    /\ c \in scheduled
    /\ nchanges < MaxChanges
    /\ \E u \in Upstreams \ {upstream[c]} :
          upstream' = [upstream EXCEPT ![c] = u]
    /\ nchanges' = nchanges + 1
    /\ changed' = [changed EXCEPT ![c] = TRUE]
    /\ UNCHANGED <<config, now, facade_vars, cache_vars, pc, metadata, idx, groups, result,
                   log, hist_vars>>

\* the wall clock advances
Tick ==
    /\ now < MaxClock
    /\ now' = now + 1
    /\ UNCHANGED <<env_vars, facade_vars, cache_vars, pc, metadata, idx, groups, result, log,
                   changed, hist_vars>>

\* ----------------------------------------------------------------- facade
\* Scheduler::add_task(key, task): the task is run once per interval from now on
add_task(tasks, key) == tasks \cup {key}

\* seeded fault: the creation of the client is put off, the field stays None
create_consumerDeferred(created) == "none"

\* MetadataFetcherTask::create_consumer: the client is created and stored in
\* self.consumer, or expect() panics
create_consumer(created) == IF created THEN "some" ELSE "panic"

\* MetadataFetcher::add_cluster(cluster_id, bootstrap_servers); created tells
\* whether rdkafka can create the consumer for these bootstrap servers
add_cluster(c, created) ==
    /\ c \in config
    /\ panicked = {}
    /\ consumer[c] = "absent"
    /\ IF create_consumer(created) = "panic"
       THEN /\ panicked' = panicked \cup {c}
            /\ UNCHANGED <<consumer, scheduled, add_result>>
       ELSE /\ consumer' = [consumer EXCEPT ![c] = create_consumer(created)]
            /\ scheduled' = add_task(scheduled, c)
            /\ add_result' = [add_result EXCEPT ![c] = Ok]
            /\ UNCHANGED panicked
    /\ UNCHANGED <<env_vars, now, cache_vars, pc, metadata, idx, groups, result, log,
                   changed, hist_vars>>

\* -------------------------------------------------- MetadataFetcherTask::run
Running == {c \in Clusters : pc[c] # "idle"}

\* the scheduler may call run of c's task: it is registered, its last run has
\* returned, and fewer than the ceiling of runs are under way
MayRun(c) ==
    /\ c \in scheduled
    /\ pc[c] = "idle"
    /\ Cardinality(Running) < Concurrency

Logged(c, e) == [log EXCEPT ![c] = Append(@, e)]

\* seeded fault: one key for every cluster
ClusterKeyShared(c) == "c1"

\* seeded fault: the pair keys carry one cluster id for every cluster
PairKeyShared(c, name) == <<"c1", name>>

\* the cache keys a task writes: self.cluster_id.to_owned(), alone or paired
\* with a topic or group name
ClusterKey(c) == c
PairKey(c, name) == <<c, name>>

\* run returns r: its locals are dropped
Return(c, r) ==
    /\ pc' = [pc EXCEPT ![c] = "idle"]
    /\ result' = [result EXCEPT ![c] = r]
    /\ metadata' = [metadata EXCEPT ![c] = NoLocal]
    /\ idx' = [idx EXCEPT ![c] = 0]
    /\ groups' = [groups EXCEPT ![c] = NoLocal]

\* seeded fault: the error is logged and run carries on with the group phase
AbortSkipsPhase(c, chain) ==
    /\ pc' = [pc EXCEPT ![c] = "fetch_groups"]
    /\ metadata' = [metadata EXCEPT ![c] = NoLocal]
    /\ idx' = [idx EXCEPT ![c] = 0]
    /\ UNCHANGED <<groups, result>>

\* the `?` operator on an Err: run returns the error at once
Abort(c, chain) == Return(c, Err(chain))

\* seeded fault: the cluster's stale topic entries are dropped with the insert
TopicInsertPurging(map, key, partitions) ==
    MapInsert([k \in {x \in DOMAIN map : x[1] # key[1]} |-> map[k]], key, partitions)

\* seeded fault: the new partitions are added to those already under the key
TopicInsertMerging(map, key, partitions) ==
    MapInsert(map, key, IF key \in DOMAIN map THEN map[key] \o partitions ELSE partitions)

\* self.topic_cache.insert(key, partitions) that succeeded
TopicInsert(map, key, partitions) == MapInsert(map, key, partitions)

\* seeded fault: the handle is taken without the check
ok_or_elseUnchecked(option, msg) == Ok

\* self.consumer.as_ref().ok_or_else(|| msg): Err(msg) when the option is None
ok_or_else(option, msg) == IF option = "some" THEN Ok ELSE Err(<<Msg(msg, None)>>)

\* run is entered, and self.consumer is looked at
Enter(c) ==
    /\ MayRun(c)
    /\ log' = [log EXCEPT ![c] = <<>>]
    /\ pre' = [pre EXCEPT ![c] = Entries(c)]
    /\ prev_ok' = [prev_ok EXCEPT ![c] = (result[c].status = "ok" /\ ~changed[c])]
    /\ changed' = [changed EXCEPT ![c] = FALSE]
    /\ LET handle == ok_or_else(consumer[c], "Consumer not initialized")
       IN IF handle.status = "ok"
          THEN /\ pc' = [pc EXCEPT ![c] = "fetch_metadata"]
               /\ result' = [result EXCEPT ![c] = NotReturned]
               /\ UNCHANGED <<metadata, idx, groups>>
          ELSE Abort(c, handle.chain)
    /\ UNCHANGED <<env_vars, now, facade_vars, cache_vars>>

\* the scheduler's tick for c, among the first MaxRuns ticks
RunStart(c) ==
    /\ nruns < MaxRuns
    /\ nruns' = nruns + 1
    /\ Enter(c)

\* the scheduler's tick for c, interval after interval without end
RunStartAgain(c) ==
    /\ Enter(c)
    /\ UNCHANGED nruns

\* let metadata = fetch_metadata(consumer, 30000).chain_err(...)?
FetchMetadata(c) ==
    /\ pc[c] = "fetch_metadata"
    /\ \/ /\ metadata' = [metadata EXCEPT ![c] = fetch_metadata(upstream[c], now)]
          /\ log' = Logged(c, Event("fetch", "metadata", None, Topology(upstream[c]), TRUE))
          /\ pc' = [pc EXCEPT ![c] = "insert_metadata"]
          /\ UNCHANGED <<idx, groups, result>>
       \/ /\ log' = Logged(c, Event("fetch", "metadata", None, None, FALSE))
          /\ Abort(c, chain_err(
                chain_err(KafkaError, Msg("Failed to fetch metadata from consumer", None)),
                Msg("Metadata fetch failed, cluster: ", Some(c))))
    /\ UNCHANGED <<env_vars, now, facade_vars, cache_vars, changed, hist_vars>>

\* seeded fault: the aggregate entry and the broker entry are published in
\* one step
InsertMetadataWithBrokers(c) ==
    /\ pc[c] = "insert_metadata"
    /\ \/ /\ cache' = MapInsert(cache, ClusterKey(c), metadata[c])
          /\ broker_cache' = MapInsert(broker_cache, ClusterKey(c), metadata[c].brokers)
          /\ log' = Logged(c, Event("insert", "cache", ClusterKey(c), metadata[c], TRUE))
          /\ pc' = [pc EXCEPT ![c] = "fetch_metadata_2"]
          /\ metadata' = [metadata EXCEPT ![c] = NoLocal]
          /\ UNCHANGED <<idx, groups, result>>
       \/ /\ log' = Logged(c, Event("insert", "cache", ClusterKey(c), metadata[c], FALSE))
          /\ Abort(c, chain_err(CacheError,
                Msg("Failed to create new metadata container to cache", None)))
          /\ UNCHANGED <<cache, broker_cache>>
    /\ UNCHANGED <<env_vars, now, facade_vars, topic_cache, group_cache, changed, hist_vars>>

\* self.cache.insert(self.cluster_id.to_owned(), Arc::new(metadata)).chain_err(...)?
InsertMetadata(c) ==
    /\ pc[c] = "insert_metadata"
    /\ \/ /\ cache' = MapInsert(cache, ClusterKey(c), metadata[c])
          /\ log' = Logged(c, Event("insert", "cache", ClusterKey(c), metadata[c], TRUE))
          /\ pc' = [pc EXCEPT ![c] = "fetch_metadata_2"]
          /\ metadata' = [metadata EXCEPT ![c] = NoLocal]
          /\ UNCHANGED <<idx, groups, result>>
       \/ /\ log' = Logged(c, Event("insert", "cache", ClusterKey(c), metadata[c], FALSE))
          /\ Abort(c, chain_err(CacheError,
                Msg("Failed to create new metadata container to cache", None)))
          /\ UNCHANGED cache
    /\ UNCHANGED <<env_vars, now, facade_vars, broker_cache, topic_cache, group_cache,
                   changed, hist_vars>>

\* let metadata = self.consumer.as_ref().unwrap().fetch_metadata(30000).chain_err(...)?
FetchMetadata2(c) ==
    /\ pc[c] = "fetch_metadata_2"
    /\ \/ /\ metadata' = [metadata EXCEPT ![c] = Topology(upstream[c])]
          /\ log' = Logged(c, Event("fetch", "metadata_2", None, Topology(upstream[c]), TRUE))
          /\ pc' = [pc EXCEPT ![c] = "insert_brokers"]
          /\ UNCHANGED <<idx, groups, result>>
       \/ /\ log' = Logged(c, Event("fetch", "metadata_2", None, None, FALSE))
          /\ Abort(c, chain_err(KafkaError,
                Msg("Failed to fetch metadata from consumer", None)))
    /\ UNCHANGED <<env_vars, now, facade_vars, cache_vars, changed, hist_vars>>

\* seeded fault: the broker entry is copied from the aggregate entry, not
\* built from the second response
InsertBrokersFromAggregate(c) ==
    /\ pc[c] = "insert_brokers"
    /\ \/ /\ broker_cache' = MapInsert(broker_cache, ClusterKey(c), cache[c].brokers)
          /\ log' = Logged(c, Event("insert", "broker_cache", ClusterKey(c),
                                    cache[c].brokers, TRUE))
          /\ IF metadata[c].topics = <<>>
             THEN /\ pc' = [pc EXCEPT ![c] = "fetch_groups"]
                  /\ metadata' = [metadata EXCEPT ![c] = NoLocal]
                  /\ UNCHANGED idx
             ELSE /\ pc' = [pc EXCEPT ![c] = "insert_topic"]
                  /\ idx' = [idx EXCEPT ![c] = 1]
                  /\ UNCHANGED metadata
          /\ UNCHANGED <<groups, result>>
       \/ /\ log' = Logged(c, Event("insert", "broker_cache", ClusterKey(c),
                                    cache[c].brokers, FALSE))
          /\ Abort(c, chain_err(CacheError,
                Msg("Failed to insert broker information in cache", None)))
          /\ UNCHANGED broker_cache
    /\ UNCHANGED <<env_vars, now, facade_vars, cache, topic_cache, group_cache,
                   changed, hist_vars>>

\* seeded fault: a failed broker insert is passed over and the topic loop is
\* entered all the same
InsertBrokersLenient(c) ==
    /\ pc[c] = "insert_brokers"
    /\ \E inserted \in BOOLEAN :
          /\ broker_cache' = IF inserted
                              THEN MapInsert(broker_cache, ClusterKey(c),
                                             Brokers(metadata[c].brokers))
                              ELSE broker_cache
          /\ log' = Logged(c, Event("insert", "broker_cache", ClusterKey(c),
                                    Brokers(metadata[c].brokers), inserted))
    /\ IF metadata[c].topics = <<>>
       THEN /\ pc' = [pc EXCEPT ![c] = "fetch_groups"]
            /\ metadata' = [metadata EXCEPT ![c] = NoLocal]
            /\ UNCHANGED idx
       ELSE /\ pc' = [pc EXCEPT ![c] = "insert_topic"]
            /\ idx' = [idx EXCEPT ![c] = 1]
            /\ UNCHANGED metadata
    /\ UNCHANGED <<groups, result>>
    /\ UNCHANGED <<env_vars, now, facade_vars, cache, topic_cache, group_cache,
                   changed, hist_vars>>

\* self.broker_cache.insert(self.cluster_id.to_owned(), brokers).chain_err(...)?
\* then the topic loop is entered
InsertBrokers(c) ==
    /\ pc[c] = "insert_brokers"
    /\ \/ /\ broker_cache' = MapInsert(broker_cache, ClusterKey(c), Brokers(metadata[c].brokers))
          /\ log' = Logged(c, Event("insert", "broker_cache", ClusterKey(c),
                                    Brokers(metadata[c].brokers), TRUE))
          /\ IF metadata[c].topics = <<>>
             THEN /\ pc' = [pc EXCEPT ![c] = "fetch_groups"]
                  /\ metadata' = [metadata EXCEPT ![c] = NoLocal]
                  /\ UNCHANGED idx
             ELSE /\ pc' = [pc EXCEPT ![c] = "insert_topic"]
                  /\ idx' = [idx EXCEPT ![c] = 1]
                  /\ UNCHANGED metadata
          /\ UNCHANGED <<groups, result>>
       \/ /\ log' = Logged(c, Event("insert", "broker_cache", ClusterKey(c),
                                    Brokers(metadata[c].brokers), FALSE))
          /\ Abort(c, chain_err(CacheError,
                Msg("Failed to insert broker information in cache", None)))
          /\ UNCHANGED broker_cache
    /\ UNCHANGED <<env_vars, now, facade_vars, cache, topic_cache, group_cache,
                   changed, hist_vars>>

\* one turn of `for topic in metadata.topics()`: the partitions are built and
\* sorted, and self.topic_cache.insert((cluster_id, topic.name), partitions)
\* .chain_err(...)? is called
InsertTopic(c) ==
    /\ pc[c] = "insert_topic"
    /\ LET topic == metadata[c].topics[idx[c]]
           key == PairKey(c, topic.name)
           partitions == Partitions(topic.partitions)
       IN \/ /\ topic_cache' = TopicInsert(topic_cache, key, partitions)
             /\ log' = Logged(c, Event("insert", "topic_cache", key, partitions, TRUE))
             /\ IF idx[c] = Len(metadata[c].topics)
                THEN /\ pc' = [pc EXCEPT ![c] = "fetch_groups"]
                     /\ metadata' = [metadata EXCEPT ![c] = NoLocal]
                     /\ idx' = [idx EXCEPT ![c] = 0]
                ELSE /\ idx' = [idx EXCEPT ![c] = @ + 1]
                     /\ UNCHANGED <<pc, metadata>>
             /\ UNCHANGED <<groups, result>>
          \/ /\ log' = Logged(c, Event("insert", "topic_cache", key, partitions, FALSE))
             /\ Abort(c, chain_err(CacheError,
                   Msg("Failed to insert broker information in cache", None)))
             /\ UNCHANGED topic_cache
    /\ UNCHANGED <<env_vars, now, facade_vars, cache, broker_cache, group_cache,
                   changed, hist_vars>>

\* fetch_groups(consumer, 30000)?, then the group loop is entered, or run
\* returns Ok(()) when no group is listed
FetchGroups(c) ==
    /\ pc[c] = "fetch_groups"
    /\ \/ /\ log' = Logged(c, Event("fetch", "groups", None, upstream[c].groups, TRUE))
          /\ IF upstream[c].groups = <<>>
             THEN Return(c, Ok)
             ELSE /\ groups' = [groups EXCEPT ![c] = fetch_groups(upstream[c].groups)]
                  /\ idx' = [idx EXCEPT ![c] = 1]
                  /\ pc' = [pc EXCEPT ![c] = "insert_group"]
                  /\ UNCHANGED <<metadata, result>>
       \/ /\ log' = Logged(c, Event("fetch", "groups", None, None, FALSE))
          /\ Abort(c, chain_err(KafkaError,
                Msg("Failed to fetch consumer group list", None)))
    /\ UNCHANGED <<env_vars, now, facade_vars, cache_vars, changed, hist_vars>>

\* one turn of `for group in fetch_groups(..)?`:
\* self.group_cache.insert((cluster_id, group.name), group); the Result of the
\* insert is dropped, and after the last turn run returns Ok(())
InsertGroup(c) ==
    /\ pc[c] = "insert_group"
    /\ LET group == groups[c][idx[c]]
           key == PairKey(c, group.name)
       IN \E inserted \in BOOLEAN :
             /\ group_cache' = IF inserted THEN MapInsert(group_cache, key, group)
                               ELSE group_cache
             /\ log' = Logged(c, Event("insert", "group_cache", key, group, inserted))
             /\ IF idx[c] = Len(groups[c])
                THEN Return(c, Ok)
                ELSE /\ idx' = [idx EXCEPT ![c] = @ + 1]
                     /\ UNCHANGED <<pc, metadata, groups, result>>
    /\ UNCHANGED <<env_vars, now, facade_vars, cache, broker_cache, topic_cache,
                   changed, hist_vars>>

\* ------------------------------------------------------------ specification
Next ==
    \/ Tick
    \/ \E c \in Clusters : UpstreamChange(c)
    \/ \E c \in Clusters, created \in BOOLEAN : add_cluster(c, created)
    \/ \E c \in Clusters : RunStart(c)
    \/ \E c \in Clusters : FetchMetadata(c)
    \/ \E c \in Clusters : InsertMetadata(c)
    \/ \E c \in Clusters : FetchMetadata2(c)
    \/ \E c \in Clusters : InsertBrokers(c)
    \/ \E c \in Clusters : InsertTopic(c)
    \/ \E c \in Clusters : FetchGroups(c)
    \/ \E c \in Clusters : InsertGroup(c)

Spec == Init /\ [][Next]_vars

\* several clusters, each with a steady upstream, within one reading of the clock
NextClusters ==
    \/ \E c \in Clusters, created \in BOOLEAN : add_cluster(c, created)
    \/ \E c \in Clusters : RunStart(c)
    \/ \E c \in Clusters : FetchMetadata(c)
    \/ \E c \in Clusters : InsertMetadata(c)
    \/ \E c \in Clusters : FetchMetadata2(c)
    \/ \E c \in Clusters : InsertBrokers(c)
    \/ \E c \in Clusters : InsertTopic(c)
    \/ \E c \in Clusters : FetchGroups(c)
    \/ \E c \in Clusters : InsertGroup(c)

SpecClusters == InitClusters /\ [][NextClusters]_vars

\* the last fetch or insert of c's run, made in this step, succeeded
Succeeds(c) == log'[c] # log[c] /\ log'[c] # <<>> /\ log'[c][Len(log'[c])].ok

\* the turns the topic loop and the group loop can take
Turns == UNION {DOMAIN u.topics \cup DOMAIN u.groups : u \in Upstreams}

\* one cluster, run interval after interval while its upstream changes a
\* bounded number of times
NextLive ==
    \/ \E c \in Clusters : UpstreamChange(c)
    \/ \E c \in Clusters, created \in BOOLEAN : add_cluster(c, created)
    \/ \E c \in Clusters : RunStartAgain(c)
    \/ \E c \in Clusters : FetchMetadata(c)
    \/ \E c \in Clusters : InsertMetadata(c)
    \/ \E c \in Clusters : FetchMetadata2(c)
    \/ \E c \in Clusters : InsertBrokers(c)
    \/ \E c \in Clusters : InsertTopic(c)
    \/ \E c \in Clusters : FetchGroups(c)
    \/ \E c \in Clusters : InsertGroup(c)

\* the scheduler keeps calling run of a registered task, a run that was
\* entered goes on, and a fetch or an insert (of one turn of a loop) that is
\* attempted again and again succeeds again and again
Fairness ==
    \A c \in Configured :
        /\ WF_vars(RunStartAgain(c))
        /\ SF_vars(FetchMetadata(c) /\ Succeeds(c))
        /\ SF_vars(InsertMetadata(c) /\ Succeeds(c))
        /\ SF_vars(FetchMetadata2(c) /\ Succeeds(c))
        /\ SF_vars(InsertBrokers(c) /\ Succeeds(c))
        /\ \A i \in Turns : SF_vars(InsertTopic(c) /\ idx[c] = i /\ Succeeds(c))
        /\ SF_vars(FetchGroups(c) /\ Succeeds(c))
        /\ \A i \in Turns : SF_vars(InsertGroup(c) /\ idx[c] = i /\ Succeeds(c))

SpecLive == Init /\ [][NextLive]_vars /\ Fairness

\* a task whose create_consumer was never called, beside a cluster added by
\* add_cluster
SpecDirect == InitDirect /\ [][NextClusters]_vars

\* ------------------------------------------------------------- properties
CacheOf(target) ==
    CASE target = "cache" -> cache
      [] target = "broker_cache" -> broker_cache
      [] target = "topic_cache" -> topic_cache
      [] target = "group_cache" -> group_cache

\* positions in c's log of the failed fetches / the failed inserts
FailedFetches(c) == {i \in 1..Len(log[c]) : log[c][i].op = "fetch" /\ ~log[c][i].ok}
FailedInserts(c) == {i \in 1..Len(log[c]) : log[c][i].op = "insert" /\ ~log[c][i].ok}

\* position i of c's log is a successful insert that no later successful
\* insert of the same run overwrote
Standing(c, i) ==
    /\ log[c][i].op = "insert"
    /\ log[c][i].ok
    /\ ~\E j \in (i + 1)..Len(log[c]) :
            /\ log[c][j].op = "insert"
            /\ log[c][j].ok
            /\ log[c][j].target = log[c][i].target
            /\ log[c][j].key = log[c][i].key

\* every write the run committed is still in its cache
WritesRemain(c) ==
    \A i \in 1..Len(log[c]) :
        Standing(c, i) =>
            /\ log[c][i].key \in DOMAIN CacheOf(log[c][i].target)
            /\ CacheOf(log[c][i].target)[log[c][i].key] = log[c][i].value

\* the run of c has returned r
Returned(c, status) == pc[c] = "idle" /\ result[c].status = status

\* C1: a failed fetch is the last thing its run does: run has returned an
\* error, nothing was fetched or written after it, the writes committed before
\* it are still in the caches, and the caches of the phases not reached are
\* as they were when the run began (a failed second topology fetch leaves the
\* new aggregate entry in place and the broker, topic and group entries
\* untouched).
C1_FetchFailureAborts ==
    \A c \in Clusters : \A i \in FailedFetches(c) :
        /\ i = Len(log[c])
        /\ Returned(c, "err")
        /\ WritesRemain(c)
        /\ log[c][i].target = "metadata" => Entries(c) = pre[c]
        /\ log[c][i].target = "metadata_2" =>
              /\ Entries(c).cache = Some(log[c][i - 1].value)
              /\ Entries(c).broker_cache = pre[c].broker_cache
              /\ Entries(c).topic_cache = pre[c].topic_cache
              /\ Entries(c).group_cache = pre[c].group_cache
        /\ log[c][i].target = "groups" => Entries(c).group_cache = pre[c].group_cache

\* a second run's second topology fetch has failed, over entries of the first
C1_Witness ==
    \E c \in Clusters : \E i \in FailedFetches(c) :
        /\ log[c][i].target = "metadata_2"
        /\ pre[c].broker_cache # None
        /\ pre[c].cache # None
        /\ Entries(c).cache # pre[c].cache

\* C2: a failed insert, into any of the four caches, is the last thing its
\* run does, and the run returns an error.
C2_InsertFailureAborts ==
    \A c \in Clusters : \A i \in FailedInserts(c) :
        /\ i = Len(log[c])
        /\ pc[c] = "idle" => result[c].status = "err"

\* a second run returned Ok although an insert into the group cache failed
C2_Reached ==
    \E c \in Clusters : \E i \in FailedInserts(c) :
        log[c][i].target = "group_cache" /\ Returned(c, "ok")

\* the step is one of the run of a's task
RunStep(a) == pc'[a] # pc[a] \/ log'[a] # log[a]

Names(listing) == {listing[i].name : i \in 1..Len(listing)}

\* the run of c has tried to write key in the cache target
Wrote(c, target, key) ==
    \E i \in 1..Len(log[c]) :
        log[c][i].op = "insert" /\ log[c][i].target = target /\ log[c][i].key = key

\* C4: a topic entry, or a group entry, that was in the cache when a run of
\* its cluster began is never removed, and keeps its value when the run does
\* not write it; with the upstream steady since the run began, that is the
\* case of every topic (group) the upstream no longer lists.
C4_Accretion ==
    \A c \in config :
        /\ \A k \in DOMAIN pre[c].topic_cache :
              /\ k \in DOMAIN topic_cache
              /\ ~Wrote(c, "topic_cache", k) => topic_cache[k] = pre[c].topic_cache[k]
              /\ (~changed[c] /\ k[2] \notin Names(upstream[c].topics)) =>
                    topic_cache[k] = pre[c].topic_cache[k]
        /\ \A k \in DOMAIN pre[c].group_cache :
              /\ k \in DOMAIN group_cache
              /\ ~Wrote(c, "group_cache", k) => group_cache[k] = pre[c].group_cache[k]
              /\ (~changed[c] /\ k[2] \notin Names(upstream[c].groups)) =>
                    group_cache[k] = pre[c].group_cache[k]

\* a run has returned Ok over a topic entry and a group entry of an earlier
\* run that the upstream no longer lists
C4_Witness ==
    \E c \in config :
        /\ Returned(c, "ok")
        /\ ~changed[c]
        /\ \E k \in DOMAIN pre[c].topic_cache : k[2] \notin Names(upstream[c].topics)
        /\ \E k \in DOMAIN pre[c].group_cache : k[2] \notin Names(upstream[c].groups)

IsSortedById(partitions) ==
    \A i, j \in 1..Len(partitions) : i < j => partitions[i].id <= partitions[j].id

\* C5: every partition list in an aggregate entry and every value of the
\* topic cache is sorted ascending by partition id.
C5_PartitionsSorted ==
    /\ \A c \in DOMAIN cache : \A t \in DOMAIN cache[c].topics :
          IsSortedById(cache[c].topics[t])
    /\ \A k \in DOMAIN topic_cache : IsSortedById(topic_cache[k])

\* a topic whose partitions the upstream reports out of order is stored in
\* the aggregate entry and in the topic cache
C5_Witness ==
    \E c \in config : \E i \in 1..Len(upstream[c].topics) :
        LET t == upstream[c].topics[i]
        IN /\ ~changed[c]
           /\ Returned(c, "ok")
           /\ ~IsSortedById(t.partitions)
           /\ Len(t.partitions) >= 3
           /\ Len(cache[c].topics[t.name]) = Len(t.partitions)
           /\ Len(topic_cache[<<c, t.name>>]) = Len(t.partitions)

\* the run of c that has returned Ok saw the upstream as it is now
SteadyOk(c) == Returned(c, "ok") /\ ~changed[c]

\* C6: when a run returns Ok right after a run that returned Ok, with the
\* upstream unchanged since the earlier run began, the broker, topic and group
\* entries of the cluster are what they were when the later run began, and so
\* is the aggregate entry but for its refresh_time.
C6_Idempotent ==
    \A c \in config :
        (SteadyOk(c) /\ prev_ok[c]) =>
            /\ Entries(c).broker_cache = pre[c].broker_cache
            /\ Entries(c).topic_cache = pre[c].topic_cache
            /\ Entries(c).group_cache = pre[c].group_cache
            /\ pre[c].cache # None
            /\ Entries(c).cache[1].brokers = pre[c].cache[1].brokers
            /\ Entries(c).cache[1].topics = pre[c].cache[1].topics

\* a stored broker is the reported broker
SameBroker(stored, reported) ==
    /\ stored.id = reported.id
    /\ stored.hostname = reported.host
    /\ stored.port = reported.port

\* a stored partition is the reported partition (its error apart)
SamePartition(stored, reported) ==
    /\ stored.id = reported.id
    /\ stored.leader = reported.leader
    /\ stored.replicas = reported.replicas
    /\ stored.isr = reported.isr
    /\ (stored.error = None) <=> (reported.error = None)

\* a stored partition list holds the reported partitions, each once
SamePartitions(stored, reported) ==
    /\ Len(stored) = Len(reported)
    /\ \A i \in 1..Len(reported) : \E j \in 1..Len(stored) :
          SamePartition(stored[j], reported[i])
    /\ \A j \in 1..Len(stored) : \E i \in 1..Len(reported) :
          SamePartition(stored[j], reported[i])

\* C7: after a run that returned Ok with the upstream steady, the aggregate
\* entry holds the reported brokers in the reported order and, for exactly the
\* reported topics, their partitions; the broker entry equals the aggregate's
\* broker list and each topic entry the aggregate's partition list.
C7_CachesReflectUpstream ==
    \A c \in config :
        SteadyOk(c) =>
            /\ c \in DOMAIN cache /\ c \in DOMAIN broker_cache
            /\ Len(cache[c].brokers) = Len(upstream[c].brokers)
            /\ \A i \in 1..Len(upstream[c].brokers) :
                  SameBroker(cache[c].brokers[i], upstream[c].brokers[i])
            /\ DOMAIN cache[c].topics = Names(upstream[c].topics)
            /\ \A i \in 1..Len(upstream[c].topics) :
                  SamePartitions(cache[c].topics[upstream[c].topics[i].name],
                                 upstream[c].topics[i].partitions)
            /\ broker_cache[c] = cache[c].brokers
            /\ \A t \in DOMAIN cache[c].topics :
                  /\ <<c, t>> \in DOMAIN topic_cache
                  /\ topic_cache[<<c, t>>] = cache[c].topics[t]

\* such a run, over two brokers reported with the higher id first, and two topics
C7_Witness ==
    \E c \in config :
        /\ SteadyOk(c)
        /\ Len(upstream[c].brokers) = 2
        /\ upstream[c].brokers[1].id > upstream[c].brokers[2].id
        /\ Cardinality(DOMAIN cache[c].topics) = 2

\* the partitions of a list that carry an error
WithError(partitions) == {i \in 1..Len(partitions) : partitions[i].error # None}

\* the stored list holds partition id with a non-empty error description
StoredWithError(stored, id) ==
    \E j \in 1..Len(stored) :
        /\ stored[j].id = id
        /\ stored[j].error # None
        /\ stored[j].error[1] # ""

\* C8: a run only returns an error when a fetch or an insert failed, never for
\* a partition's error; and after a run that returned Ok with the upstream
\* steady, every partition reported with an error is in its topic's list with
\* an error description, in the aggregate entry and in the topic cache, next
\* to all the other partitions and topics, and every reported group was
\* handed to the group cache.
C8_PartitionErrorIsData ==
    \A c \in config :
        /\ Returned(c, "err") => (log[c] # <<>> /\ ~log[c][Len(log[c])].ok)
        /\ SteadyOk(c) =>
              /\ \A i \in 1..Len(upstream[c].topics) :
                    LET t == upstream[c].topics[i]
                    IN /\ t.name \in DOMAIN cache[c].topics
                       /\ <<c, t.name>> \in DOMAIN topic_cache
                       /\ Len(cache[c].topics[t.name]) = Len(t.partitions)
                       /\ Len(topic_cache[<<c, t.name>>]) = Len(t.partitions)
                       /\ \A p \in WithError(t.partitions) :
                             /\ StoredWithError(cache[c].topics[t.name], t.partitions[p].id)
                             /\ StoredWithError(topic_cache[<<c, t.name>>], t.partitions[p].id)
              /\ \A g \in Names(upstream[c].groups) : Wrote(c, "group_cache", <<c, g>>)

\* such a run, with a partition reported without a leader, other partitions
\* and another topic beside it, and every group stored
C8_Witness ==
    \E c \in config :
        /\ SteadyOk(c)
        /\ FailedInserts(c) = {}
        /\ \E i \in 1..Len(upstream[c].topics) :
              /\ WithError(upstream[c].topics[i].partitions) # {}
              /\ Len(upstream[c].topics[i].partitions) > 1
        /\ Len(upstream[c].topics) > 1
        /\ Len(upstream[c].groups) > 1

\* C9: when the consumer of a cluster cannot be created, add_cluster returns
\* an error, the cluster's task is not registered, and the clusters registered
\* before stay registered and can be run.
C9_SetupErrorReturned ==
    \A c \in panicked :
        /\ add_result[c].status = "err"
        /\ c \notin scheduled
        /\ \A b \in scheduled : consumer[b] = "some"

\* C10: an error run returns names its cluster in one of its messages, and
\* run returns Ok only when each of its fetches and inserts succeeded.
C10_ErrorsCarryContext ==
    \A c \in Clusters :
        /\ Returned(c, "err") =>
              \E i \in 1..Len(result[c].chain) : result[c].chain[i].cluster = Some(c)
        /\ Returned(c, "ok") => \A i \in 1..Len(log[c]) : log[c][i].ok

\* what the entries of a cluster become when the successful inserts of the
\* events are applied to them, one after the other, with no other run between
RECURSIVE Replay(_, _)
Replay(entries, events) ==
    IF events = <<>> THEN entries
    ELSE LET before == Replay(entries, SubSeq(events, 1, Len(events) - 1))
             e == events[Len(events)]
         IN IF e.op # "insert" \/ ~e.ok THEN before
            ELSE CASE e.target = "cache" -> [before EXCEPT !.cache = Some(e.value)]
                   [] e.target = "broker_cache" ->
                        [before EXCEPT !.broker_cache = Some(e.value)]
                   [] e.target = "topic_cache" ->
                        [before EXCEPT !.topic_cache = MapInsert(@, e.key, e.value)]
                   [] e.target = "group_cache" ->
                        [before EXCEPT !.group_cache = MapInsert(@, e.key, e.value)]

\* the key is one of cluster c's keys in the cache target
OwnKey(c, target, key) ==
    IF target \in {"cache", "broker_cache"} THEN key = c
    ELSE Len(key) = 2 /\ key[1] = c

\* C11: every key a run writes, or tries to write, carries the cluster id of
\* its task, every key in the caches belongs to one cluster, and however the
\* steps of the runs of two clusters interleave, the entries of each cluster
\* are those its own run produces when it executes alone from the entries it
\* found: the content of the four caches is that of the runs executed one
\* after the other.
C11_KeysPartitioned ==
    /\ \A c \in Clusters : \A i \in 1..Len(log[c]) :
          log[c][i].op = "insert" => OwnKey(c, log[c][i].target, log[c][i].key)
    /\ DOMAIN cache \subseteq Clusters
    /\ DOMAIN broker_cache \subseteq Clusters
    /\ \A k \in DOMAIN topic_cache \cup DOMAIN group_cache : k[1] \in Clusters
    /\ \A c \in Clusters : Entries(c) = Replay(pre[c], log[c])

\* the runs of two clusters are under way at once, one in its topic loop and
\* the other past its first topic insert, both over the same topic names
C11_Witness ==
    \E a \in Clusters : \E b \in Clusters \ {a} :
        /\ pc[a] = "insert_topic"
        /\ pc[b] \in {"insert_topic", "fetch_groups", "insert_group"}
        /\ \E n \in {"ta", "tb"} :
              /\ <<a, n>> \in DOMAIN topic_cache
              /\ <<b, n>> \in DOMAIN topic_cache
              /\ topic_cache[<<a, n>>] # topic_cache[<<b, n>>]

\* the stored broker list is the reported one, in the reported order
SameBrokers(stored, reported) ==
    /\ Len(stored) = Len(reported)
    /\ \A i \in 1..Len(reported) : SameBroker(stored[i], reported[i])

\* the run of c is between its aggregate insert and its broker insert
BetweenInserts(c) == pc[c] \in {"fetch_metadata_2", "insert_brokers"}

\* C12: the writes of a run are separate steps: between the aggregate insert
\* and the broker insert of a run, the aggregate entry of the cluster is the
\* snapshot this run assembled (the brokers the upstream reports, when the
\* upstream has been steady since the run began) while the broker entry is
\* still the one the run found, so a reader can see the two apart.
C12_WritesNotAtomic ==
    \A c \in config :
        BetweenInserts(c) =>
            /\ Len(log[c]) >= 2
            /\ log[c][2] = Event("insert", "cache", c, log[c][2].value, TRUE)
            /\ Lookup(cache, c) = Some(log[c][2].value)
            /\ ~changed[c] => SameBrokers(cache[c].brokers, upstream[c].brokers)
            /\ Lookup(broker_cache, c) = pre[c].broker_cache

\* mid-run, the aggregate entry holds the broker list the upstream reports
\* now and the broker entry the different list stored by the run before
C12_Witness ==
    \E c \in config :
        /\ BetweenInserts(c)
        /\ ~changed[c]
        /\ pre[c].broker_cache # None
        /\ c \in DOMAIN broker_cache
        /\ SameBrokers(cache[c].brokers, upstream[c].brokers)
        /\ ~SameBrokers(broker_cache[c], upstream[c].brokers)
        /\ broker_cache[c] = pre[c].cache[1].brokers

\* C13: a snapshot is stamped with the clock's reading in the step that
\* assembles it, the aggregate insert stores it with that stamp, and the
\* refresh_time of a cluster's aggregate entry never decreases from one state
\* to the next (the runs of one cluster do not overlap, and the clock only
\* advances).
C13_RefreshTimeMonotone ==
    [][\A c \in Clusters :
          /\ (pc[c] = "fetch_metadata" /\ pc'[c] = "insert_metadata") =>
                metadata'[c].refresh_time = now
          /\ (pc[c] = "insert_metadata" /\ pc'[c] = "fetch_metadata_2") =>
                /\ c \in DOMAIN cache'
                /\ cache'[c].refresh_time = metadata[c].refresh_time
          /\ c \in DOMAIN cache =>
                /\ c \in DOMAIN cache'
                /\ cache'[c].refresh_time >= cache[c].refresh_time]_vars

\* the aggregate entry of a run that returned Ok carries a later refresh_time
\* than the entry it replaced
C13_Witness ==
    \E c \in Clusters :
        /\ pre[c].cache # None
        /\ c \in DOMAIN cache
        /\ cache[c].refresh_time > pre[c].cache[1].refresh_time
        /\ Returned(c, "ok")

\* what run returns when self.consumer is None
Uninitialized == Err(<<Msg("Consumer not initialized", None)>>)

\* C14: a task whose consumer was never created is never past the entry of
\* run and attempts no fetch; whatever its run returns is the error "Consumer
\* not initialized", and the step in which its run is entered and returns
\* leaves the four caches as they are.
C14_UnreadyRunFails ==
    [][/\ \A c \in Clusters : consumer[c] = "none" =>
             /\ pc'[c] = "idle"
             /\ log'[c] = <<>>
             /\ result'[c] \in {result[c], Uninitialized}
       /\ (nruns' # nruns /\ pc' = pc) =>
             /\ \E c \in Clusters :
                   consumer[c] = "none" /\ MayRun(c) /\ result'[c] = Uninitialized
             /\ UNCHANGED cache_vars]_vars

\* the run of the task without a consumer has returned, beside the entries
\* another cluster's run stored in the four caches
C14_Witness ==
    \E c \in Clusters :
        /\ consumer[c] = "none"
        /\ result[c] = Uninitialized
        /\ log[c] = <<>>
        /\ cache # <<>> /\ broker_cache # <<>> /\ topic_cache # <<>> /\ group_cache # <<>>

\* the number of topics the second topology fetch of c's run reported
TopicsFetched(c) ==
    IF Len(log[c]) >= 3 /\ log[c][3].ok THEN Len(log[c][3].value.topics) ELSE 0

\* the i-th fetch or insert of c's run is the one the fixed order puts there
InOrder(c, i) ==
    LET e == log[c][i]
        t == TopicsFetched(c)
    IN CASE i = 1 -> e.op = "fetch" /\ e.target = "metadata"
         [] i = 2 -> e.op = "insert" /\ e.target = "cache"
         [] i = 3 -> e.op = "fetch" /\ e.target = "metadata_2"
         [] i = 4 -> e.op = "insert" /\ e.target = "broker_cache"
         [] i > 4 /\ i <= 4 + t ->
              /\ e.op = "insert" /\ e.target = "topic_cache"
              /\ e.key = <<c, log[c][3].value.topics[i - 4].name>>
         [] i = 5 + t -> e.op = "fetch" /\ e.target = "groups"
         [] OTHER ->
              /\ e.op = "insert" /\ e.target = "group_cache"
              /\ i - 5 - t <= Len(log[c][5 + t].value)
              /\ e.key = <<c, log[c][5 + t].value[i - 5 - t].name>>

\* C15: the fetches and inserts of a run come in one order: aggregate fetch,
\* aggregate insert, second topology fetch, broker insert, one topic insert
\* per topic of the second response in the reported order, group fetch, one
\* group insert per listed group; and every fetch and every aggregate, broker
\* or topic insert before a step of the run succeeded, so the broker entry is
\* written after the aggregate insert succeeded, a topic entry after the
\* broker insert succeeded and a group entry after every topic insert
\* succeeded.
C15_FixedOrder ==
    \A c \in Clusters : \A i \in 1..Len(log[c]) :
        /\ InOrder(c, i)
        /\ \A j \in 1..(i - 1) : log[c][j].target # "group_cache" => log[c][j].ok

\* a run went through every step, over two topics and two groups
C15_Witness ==
    \E c \in Clusters :
        /\ Returned(c, "ok")
        /\ TopicsFetched(c) = 2
        /\ Len(log[c]) = 9
        /\ log[c][5].key # log[c][6].key
        /\ log[c][8].key # log[c][9].key

\* the stored topic map holds exactly the reported topics, each with its partitions
SameTopics(stored, reported) ==
    /\ DOMAIN stored = Names(reported)
    /\ \A i \in 1..Len(reported) :
          SamePartitions(stored[reported[i].name], reported[i].partitions)

\* the responses to the first and to the second topology fetch of c's run
FirstResponse(c) == log[c][1].value
SecondResponse(c) == log[c][3].value

\* C16: after a run returned Ok, and until the next run of the cluster, the
\* aggregate entry holds the brokers and topics of the run's first topology
\* response, and the broker entry and the topic entries those of its second
\* response; when the two responses differ, the aggregate entry disagrees with
\* the broker entry (and with the entry of a topic whose partitions differ).
C16_TwoFetches ==
    \A c \in Clusters :
        Returned(c, "ok") =>
            LET first == FirstResponse(c)
                second == SecondResponse(c)
            IN /\ SameBrokers(cache[c].brokers, first.brokers)
               /\ SameTopics(cache[c].topics, first.topics)
               /\ SameBrokers(broker_cache[c], second.brokers)
               /\ \A i \in 1..Len(second.topics) :
                     /\ <<c, second.topics[i].name>> \in DOMAIN topic_cache
                     /\ SamePartitions(topic_cache[<<c, second.topics[i].name>>],
                                       second.topics[i].partitions)
               /\ first.brokers # second.brokers => cache[c].brokers # broker_cache[c]
               /\ \A i \in 1..Len(first.topics) : \A j \in 1..Len(second.topics) :
                     (/\ first.topics[i].name = second.topics[j].name
                      /\ ~SamePartitions(cache[c].topics[first.topics[i].name],
                                         second.topics[j].partitions)) =>
                         cache[c].topics[first.topics[i].name]
                             # topic_cache[<<c, second.topics[j].name>>]

\* a run returned Ok although the upstream changed between its two topology
\* fetches: the aggregate entry and the broker and topic entries differ
C16_Witness ==
    \E c \in Clusters :
        /\ Returned(c, "ok")
        /\ FirstResponse(c) # SecondResponse(c)
        /\ cache[c].brokers # broker_cache[c]
        /\ cache[c].topics["tb"] # topic_cache[<<c, "tb">>]

\* the ids of a list of brokers or partitions
Ids(list) == {list[i].id : i \in 1..Len(list)}

\* C17: every insert that succeeded put exactly its value under its key, and
\* after a run that returned Ok with the upstream steady, the broker entry and
\* the aggregate's broker list hold no broker the upstream does not report,
\* the aggregate's topic map no topic it does not report, and the entry of a
\* reported topic no partition it does not report for that topic.
C17_ReplaceNotMerge ==
    \A c \in config :
        /\ WritesRemain(c)
        /\ SteadyOk(c) =>
              /\ Ids(broker_cache[c]) \subseteq Ids(upstream[c].brokers)
              /\ Ids(cache[c].brokers) \subseteq Ids(upstream[c].brokers)
              /\ DOMAIN cache[c].topics \subseteq Names(upstream[c].topics)
              /\ \A i \in 1..Len(upstream[c].topics) :
                    LET t == upstream[c].topics[i]
                    IN /\ Ids(topic_cache[<<c, t.name>>]) \subseteq Ids(t.partitions)
                       /\ Ids(cache[c].topics[t.name]) \subseteq Ids(t.partitions)

\* a run returned Ok over entries that held a broker, a topic and a partition
\* of a topic still reported, none of which the upstream reports any more
C17_Witness ==
    \E c \in config :
        /\ SteadyOk(c)
        /\ pre[c].cache # None /\ pre[c].broker_cache # None
        /\ ~(Ids(pre[c].broker_cache[1]) \subseteq Ids(upstream[c].brokers))
        /\ ~(Ids(pre[c].cache[1].brokers) \subseteq Ids(upstream[c].brokers))
        /\ ~(DOMAIN pre[c].cache[1].topics \subseteq Names(upstream[c].topics))
        /\ \E i \in 1..Len(upstream[c].topics) :
              LET t == upstream[c].topics[i]
              IN /\ <<c, t.name>> \in DOMAIN pre[c].topic_cache
                 /\ ~(Ids(pre[c].topic_cache[<<c, t.name>>]) \subseteq Ids(t.partitions))

\* the topic names keyed under cluster c in the topic cache
TopicNamesCached(c) == {k[2] : k \in DOMAIN Keyed(topic_cache, c)}

\* C18: after a run that returned Ok with the upstream steady, every topic
\* name of the cluster's aggregate entry is keyed under the cluster in the
\* topic cache; and a topic that had an entry when the run began and that the
\* upstream does not report is absent from the aggregate entry and still in
\* the topic cache, so the inclusion, once strict, stays strict run after run.
C18_AggregateTopicsCached ==
    \A c \in config :
        SteadyOk(c) =>
            /\ DOMAIN cache[c].topics \subseteq TopicNamesCached(c)
            /\ \A k \in DOMAIN pre[c].topic_cache :
                  k[2] \notin Names(upstream[c].topics) =>
                      /\ k[2] \notin DOMAIN cache[c].topics
                      /\ k[2] \in TopicNamesCached(c)

\* a run returned Ok after a topic was deleted upstream: the topic cache keys
\* a name the aggregate entry does not hold
C18_Witness ==
    \E c \in config :
        /\ SteadyOk(c)
        /\ DOMAIN cache[c].topics # {}
        /\ DOMAIN cache[c].topics # TopicNamesCached(c)
        /\ \E k \in DOMAIN pre[c].topic_cache :
              k[2] \in DOMAIN pre[c].cache[1].topics /\ k[2] \notin DOMAIN cache[c].topics

\* C19: the task of every cluster registered with the scheduler by
\* add_cluster has its consumer, so no run the scheduler starts returns the
\* error "Consumer not initialized".
C19_RegisteredTasksReady ==
    /\ \A c \in scheduled : consumer[c] = "some"
    /\ \A c \in Clusters : \A i \in 1..Len(result[c].chain) :
          result[c].chain[i].text # "Consumer not initialized"

\* the runs of two clusters added by add_cluster have returned, one of them
\* an error
C19_Witness ==
    \E a \in scheduled : \E b \in scheduled \ {a} :
        /\ add_result[a] = Ok /\ add_result[b] = Ok
        /\ Returned(a, "err")
        /\ Returned(b, "ok")

\* a stored group is the reported group
SameGroup(stored, reported) ==
    /\ stored.name = reported.name
    /\ stored.state = reported.state
    /\ Len(stored.members) = Len(reported.members)
    /\ \A j \in 1..Len(reported.members) :
          /\ stored.members[j].id = reported.members[j].id
          /\ stored.members[j].client_id = reported.members[j].client_id
          /\ stored.members[j].client_host = reported.members[j].client_host

\* the four caches hold what cluster c reports now: the aggregate entry, the
\* broker entry, the entry of every reported topic and of every listed group
Consistent(c) ==
    /\ c \in DOMAIN cache
    /\ SameBrokers(cache[c].brokers, upstream[c].brokers)
    /\ SameTopics(cache[c].topics, upstream[c].topics)
    /\ c \in DOMAIN broker_cache
    /\ SameBrokers(broker_cache[c], upstream[c].brokers)
    /\ \A i \in 1..Len(upstream[c].topics) :
          /\ <<c, upstream[c].topics[i].name>> \in DOMAIN topic_cache
          /\ SamePartitions(topic_cache[<<c, upstream[c].topics[i].name>>],
                            upstream[c].topics[i].partitions)
          /\ IsSortedById(topic_cache[<<c, upstream[c].topics[i].name>>])
    /\ \A i \in 1..Len(upstream[c].groups) :
          /\ <<c, upstream[c].groups[i].name>> \in DOMAIN group_cache
          /\ SameGroup(group_cache[<<c, upstream[c].groups[i].name>>], upstream[c].groups[i])

\* C20: when the scheduler keeps running the task of a registered cluster,
\* every fetch and insert that is attempted again and again succeeds again
\* and again, and the upstream changes only finitely often, then from some
\* point on the four caches hold what the cluster reports, at every moment,
\* in the middle of runs included.
C20_EventualConsistency ==
    <>[](\A c \in config : c \in scheduled => Consistent(c))

\* the caches hold what the cluster reports after its upstream changed, in
\* the middle of a run in which a group insert failed
C20_Witness ==
    \E c \in config :
        /\ c \in scheduled
        /\ Consistent(c)
        /\ nchanges > 0
        /\ pc[c] = "insert_group"
        /\ FailedInserts(c) # {}
        /\ pre[c] = Entries(c)

====
